---- MODULE Spec2Model ----
(***************************************************************************)
(* Model of the strix agent execution / request pipeline.                  *)
(*                                                                         *)
(*   SpecState : one AgentState object (strix/agents/state.py) driven by  *)
(*               an orchestration loop that may call any of its methods   *)
(*               in any order.                                             *)
(*   SpecQueue : the shared request queue behind LLM._make_request        *)
(*               (strix/llm/llm.py:371-372) with several agents           *)
(*               submitting concurrently.                                  *)
(***************************************************************************)
EXTENDS Integers, Sequences, FiniteSets, TLC

(* ------------------------------------------------------------------ *)
(* Bounds                                                             *)
(* ------------------------------------------------------------------ *)
\* number of clock readings (datetime.now) the model follows
MaxTime == 5
\* the max_iterations the AgentState is constructed with (200 by default)
MaxIterations == 1
\* number of agents (and sub-agents) sharing the request queue
NumAgents == 3
\* longest conversation history passed to generate()
MaxHistory == 3
\* number of generate() calls on the LLM instance
MaxCalls == 2
\* longest assistant text, in pieces
MaxContent == 4
\* largest temperature passed to LLMConfig, in halves (4 is 2.0)
MaxTemperature == 4
\* longest message list given to the cache annotation
MaxMessages == 82

(* ------------------------------------------------------------------ *)
(* Values                                                             *)
(* ------------------------------------------------------------------ *)
\* Optional values (Python's  T | None): <<>> is None, <<v>> is the value v
None == <<>>
Some(v) == <<v>>

\* message contents: a str is its sequence of characters; anything else
\* (a list of content parts, None, ...) is a non-string
Str(cs) == [isstr |-> TRUE, chars |-> cs]
NonStr == [isstr |-> FALSE, chars |-> <<>>]
Contents == {Str(<<>>), Str(<<" ", " ">>), Str(<<"x">>), NonStr}
Roles == {"user"}

\* str.strip(): drop leading and trailing whitespace
RECURSIVE lstrip(_)
lstrip(cs) == IF cs /= <<>> /\ Head(cs) = " " THEN lstrip(Tail(cs)) ELSE cs
RECURSIVE rstrip(_)
rstrip(cs) ==
  IF cs /= <<>> /\ cs[Len(cs)] = " " THEN rstrip(SubSeq(cs, 1, Len(cs) - 1)) ELSE cs
strip(cs) == rstrip(lstrip(cs))

Tasks == {"", "new task"}
NewTasks == {None} \cup {Some(t) : t \in Tasks}
Results == {"r1"}
FinalResults == {None} \cup {Some(r) : r \in Results}

\* Python truthiness of a  str | None
Truthy(opt) == opt /= None /\ opt[1] /= ""

Mutators == {"increment_iteration", "add_message", "add_action", "add_observation",
             "add_error", "update_context", "set_completed", "request_stop",
             "enter_waiting_state", "resume_from_waiting"}
Reads == {"should_stop", "is_waiting_for_input", "has_reached_max_iterations",
          "has_empty_last_messages", "get_conversation_history",
          "get_execution_summary"}

(* ------------------------------------------------------------------ *)
(* State                                                              *)
(* ------------------------------------------------------------------ *)
VARIABLES
  \* AgentState fields
  task, iteration, max_iterations, completed, stop_requested,
  waiting_for_input, llm_failed, final_result, messages, context,
  start_time, last_updated, actions_taken, observations, errors,
  \* the clock: the value of the latest datetime.now(UTC) reading
  now,
  \* the latest call on the AgentState: its name, argument and return value
  lastOp, lastArg, ret,
  \* the AgentState fields as they were when the latest call started
  before

fields == <<task, iteration, max_iterations, completed, stop_requested,
            waiting_for_input, llm_failed, final_result, messages, context,
            start_time, last_updated, actions_taken, observations, errors>>

stateVars == <<fields, now, lastOp, lastArg, ret, before>>

VARIABLES
  \* per agent: where its current generate() call is
  \*   "idle" (no request), "waiting" (suspended for a slot), "executing"
  qpc,
  \* the queue's waiting callers, oldest first
  waiting,
  \* free execution slots
  permits,
  \* per agent: how its current request ended ("none": not ended, or no request)
  result,
  \* the agents whose submission is not yet admitted, in submission order
  arrivals,
  \* the callers that were still waiting when the latest admission happened
  bypassed

queueVars == <<qpc, waiting, permits, result, arrivals, bypassed>>

VARIABLES
  \* where the LLM instance is: "new" (not constructed), "idle", or
  \* "awaiting" (generate() suspended on the request queue)
  lpc,
  \* LLM.config
  config,
  \* the caller's conversation_history list (the object passed to generate)
  history,
  \* completion_args["messages"] of the latest request
  outbound,
  \* LLM._total_stats and LLM._last_request_stats
  total_stats, last_request_stats,
  \* how the latest generate() ended: an LLMResponse or a raised exception
  generated,
  \* the history passed to the generate() call in progress
  callArg,
  \* what the backend had for the latest request: the raw response or the error
  backend,
  \* the two stats records when the latest generate() call started
  statsAtCall,
  \* generate() calls started, and requests handed to the queue by them
  calls, submissions

llmVars == <<lpc, config, history, outbound, total_stats, last_request_stats,
             generated, callArg, backend, statsAtCall, calls, submissions>>

VARIABLES
  \* the arguments of the latest LLMConfig(...) call and the STRIX_LLM
  \* environment variable it read
  cfgArgs,
  \* what the call produced: the LLMConfig or the raised error
  llmconfig,
  \* completion_args of _make_request, built from the config
  completion_args,
  \* the argument of the latest _calculate_cache_interval call and its result
  intervalCall,
  \* the config and the argument of the latest _prepare_cached_messages call,
  \* and the list it returned
  cacheCall

requestVars == <<cfgArgs, llmconfig, completion_args, intervalCall, cacheCall>>

vars == <<stateVars, queueVars, llmVars, requestVars>>

(* ------------------------------------------------------------------ *)
(* AgentState                                         agents/state.py *)
(* ------------------------------------------------------------------ *)
\* has_empty_last_messages(self, count: int = 3)
DefaultCount == 3

Keys == {"k"}
Values == {"v"}
Actions == {"a"}
Observations == {"o"}
Errors == {"e"}

\* the fixed number of requests that may execute at the same time
MaxConcurrent == 2

\* AgentState(max_iterations=MaxIterations): every other field takes its default; the two
\* timestamps are two successive clock readings.  The request queue starts
\* with every slot free and no caller.
Init ==
  /\ task = ""
  /\ iteration = 0
  /\ max_iterations = MaxIterations
  /\ completed = FALSE
  /\ stop_requested = FALSE
  /\ waiting_for_input = FALSE
  /\ llm_failed = FALSE
  /\ final_result = None
  /\ messages = <<>>
  /\ context = <<>>
  /\ start_time = 0
  /\ last_updated = 1
  /\ actions_taken = <<>>
  /\ observations = <<>>
  /\ errors = <<>>
  /\ now = 1
  /\ lastOp = "__init__"
  /\ lastArg = None
  /\ ret = None
  /\ before = fields
  /\ qpc = [a \in 1..NumAgents |-> "idle"]
  /\ waiting = <<>>
  /\ permits = MaxConcurrent
  /\ result = [a \in 1..NumAgents |-> "none"]
  /\ arrivals = <<>>
  /\ bypassed = {}
  /\ lpc = "new"
  /\ config = None
  /\ history = <<>>
  /\ outbound = <<>>
  /\ total_stats = None
  /\ last_request_stats = None
  /\ generated = [kind |-> "none"]
  /\ callArg = None
  /\ backend = None
  /\ statsAtCall = None
  /\ calls = 0
  /\ submissions = 0
  /\ cfgArgs = None
  /\ llmconfig = [kind |-> "none"]
  /\ completion_args = None
  /\ intervalCall = None
  /\ cacheCall = None

\* datetime.now(UTC): the next clock reading
Tick == now < MaxTime /\ now' = now + 1

\* a method call that returns None
Called(name, arg) ==
  /\ lastOp' = name /\ lastArg' = arg /\ ret' = None /\ before' = fields
  /\ UNCHANGED <<queueVars, llmVars, requestVars>>

\* a method call that returns a value and assigns nothing
Returned(name, arg, value) ==
  /\ lastOp' = name /\ lastArg' = arg /\ ret' = value /\ before' = fields
  /\ UNCHANGED <<fields, now>>
  /\ UNCHANGED <<queueVars, llmVars, requestVars>>

\* (changed) a stopped agent no longer counts iterations
increment_iteration_unless_stopped ==
  /\ ~stop_requested
  /\ Tick
  /\ iteration' = iteration + 1
  /\ last_updated' = now'
  /\ Called("increment_iteration", None)
  /\ UNCHANGED <<task, max_iterations, completed, stop_requested, waiting_for_input,
                 llm_failed, final_result, messages, context, start_time,
                 actions_taken, observations, errors>>

increment_iteration ==
  /\ Tick
  /\ iteration' = iteration + 1
  /\ last_updated' = now'
  /\ Called("increment_iteration", None)
  /\ UNCHANGED <<task, max_iterations, completed, stop_requested, waiting_for_input,
                 llm_failed, final_result, messages, context, start_time,
                 actions_taken, observations, errors>>

add_message(role, content) ==
  /\ Tick
  /\ messages' = Append(messages, [role |-> role, content |-> content])
  /\ last_updated' = now'
  /\ Called("add_message", <<role, content>>)
  /\ UNCHANGED <<task, iteration, max_iterations, completed, stop_requested,
                 waiting_for_input, llm_failed, final_result, context, start_time,
                 actions_taken, observations, errors>>

\* (changed) the entry is stamped with the iteration to come
add_action_stamps_next(action) ==
  /\ Tick
  /\ actions_taken' = Append(actions_taken,
         [iteration |-> iteration + 1, timestamp |-> now', action |-> action])
  /\ Called("add_action", action)
  /\ UNCHANGED <<task, iteration, max_iterations, completed, stop_requested,
                 waiting_for_input, llm_failed, final_result, messages, context,
                 start_time, last_updated, observations, errors>>

add_action(action) ==
  /\ Tick
  /\ actions_taken' = Append(actions_taken,
         [iteration |-> iteration, timestamp |-> now', action |-> action])
  /\ Called("add_action", action)
  /\ UNCHANGED <<task, iteration, max_iterations, completed, stop_requested,
                 waiting_for_input, llm_failed, final_result, messages, context,
                 start_time, last_updated, observations, errors>>

add_observation(observation) ==
  /\ Tick
  /\ observations' = Append(observations,
         [iteration |-> iteration, timestamp |-> now', observation |-> observation])
  /\ Called("add_observation", observation)
  /\ UNCHANGED <<task, iteration, max_iterations, completed, stop_requested,
                 waiting_for_input, llm_failed, final_result, messages, context,
                 start_time, last_updated, actions_taken, errors>>

\* f"Iteration {self.iteration}: {error}"
add_error(error) ==
  /\ Tick
  /\ errors' = Append(errors, <<"Iteration ", iteration, ": ", error>>)
  /\ last_updated' = now'
  /\ Called("add_error", error)
  /\ UNCHANGED <<task, iteration, max_iterations, completed, stop_requested,
                 waiting_for_input, llm_failed, final_result, messages, context,
                 start_time, actions_taken, observations>>

update_context(key, value) ==
  /\ Tick
  /\ context' = [k \in DOMAIN context \cup {key} |->
                   IF k = key THEN value ELSE context[k]]
  /\ last_updated' = now'
  /\ Called("update_context", <<key, value>>)
  /\ UNCHANGED <<task, iteration, max_iterations, completed, stop_requested,
                 waiting_for_input, llm_failed, final_result, messages, start_time,
                 actions_taken, observations, errors>>

\* (changed) a result already stored is not overwritten
set_completed_keep_first(final) ==
  /\ Tick
  /\ completed' = TRUE
  /\ final_result' = IF final_result /= None THEN final_result ELSE final
  /\ last_updated' = now'
  /\ Called("set_completed", final)
  /\ UNCHANGED <<task, iteration, max_iterations, stop_requested, waiting_for_input,
                 llm_failed, messages, context, start_time, actions_taken,
                 observations, errors>>

\* (changed) completing the task withdraws a pending stop request
set_completed_clears_stop(final) ==
  /\ Tick
  /\ completed' = TRUE
  /\ final_result' = final
  /\ stop_requested' = FALSE
  /\ last_updated' = now'
  /\ Called("set_completed", final)
  /\ UNCHANGED <<task, iteration, max_iterations, waiting_for_input,
                 llm_failed, messages, context, start_time, actions_taken,
                 observations, errors>>

\* (changed) completing the task ends the wait for input
set_completed_ends_wait(final) ==
  /\ Tick
  /\ completed' = TRUE
  /\ final_result' = final
  /\ waiting_for_input' = FALSE
  /\ last_updated' = now'
  /\ Called("set_completed", final)
  /\ UNCHANGED <<task, iteration, max_iterations, stop_requested,
                 llm_failed, messages, context, start_time, actions_taken,
                 observations, errors>>

set_completed(final) ==
  /\ Tick
  /\ completed' = TRUE
  /\ final_result' = final
  /\ last_updated' = now'
  /\ Called("set_completed", final)
  /\ UNCHANGED <<task, iteration, max_iterations, stop_requested, waiting_for_input,
                 llm_failed, messages, context, start_time, actions_taken,
                 observations, errors>>

\* (changed) a stop request also takes the agent out of the waiting state
request_stop_unwait ==
  /\ Tick
  /\ stop_requested' = TRUE
  /\ waiting_for_input' = FALSE
  /\ last_updated' = now'
  /\ Called("request_stop", None)
  /\ UNCHANGED <<task, iteration, max_iterations, completed,
                 llm_failed, final_result, messages, context, start_time,
                 actions_taken, observations, errors>>

request_stop ==
  /\ Tick
  /\ stop_requested' = TRUE
  /\ last_updated' = now'
  /\ Called("request_stop", None)
  /\ UNCHANGED <<task, iteration, max_iterations, completed, waiting_for_input,
                 llm_failed, final_result, messages, context, start_time,
                 actions_taken, observations, errors>>

\* (changed) a pending stop request survives
enter_waiting_state_keep_stop(failed) ==
  /\ Tick
  /\ waiting_for_input' = TRUE
  /\ llm_failed' = failed
  /\ last_updated' = now'
  /\ Called("enter_waiting_state", failed)
  /\ UNCHANGED <<task, iteration, max_iterations, completed, stop_requested,
                 final_result, messages, context, start_time, actions_taken,
                 observations, errors>>

enter_waiting_state(failed) ==
  /\ Tick
  /\ waiting_for_input' = TRUE
  /\ stop_requested' = FALSE
  /\ llm_failed' = failed
  /\ last_updated' = now'
  /\ Called("enter_waiting_state", failed)
  /\ UNCHANGED <<task, iteration, max_iterations, completed, final_result, messages,
                 context, start_time, actions_taken, observations, errors>>

\* (changed) llm_failed survives the resume
resume_from_waiting_keep_failed(new_task) ==
  /\ Tick
  /\ waiting_for_input' = FALSE
  /\ stop_requested' = FALSE
  /\ completed' = FALSE
  /\ task' = IF Truthy(new_task) THEN new_task[1] ELSE task
  /\ last_updated' = now'
  /\ Called("resume_from_waiting", new_task)
  /\ UNCHANGED <<iteration, max_iterations, llm_failed, final_result, messages,
                 context, start_time, actions_taken, observations, errors>>

\* (changed) the task is replaced by whatever is not None
resume_from_waiting_not_none(new_task) ==
  /\ Tick
  /\ waiting_for_input' = FALSE
  /\ stop_requested' = FALSE
  /\ completed' = FALSE
  /\ llm_failed' = FALSE
  /\ task' = IF new_task /= None THEN new_task[1] ELSE task
  /\ last_updated' = now'
  /\ Called("resume_from_waiting", new_task)
  /\ UNCHANGED <<iteration, max_iterations, final_result, messages, context,
                 start_time, actions_taken, observations, errors>>

\* (changed) resuming also forgets the final result
resume_from_waiting_drop_result(new_task) ==
  /\ Tick
  /\ waiting_for_input' = FALSE
  /\ stop_requested' = FALSE
  /\ completed' = FALSE
  /\ llm_failed' = FALSE
  /\ final_result' = None
  /\ task' = IF Truthy(new_task) THEN new_task[1] ELSE task
  /\ last_updated' = now'
  /\ Called("resume_from_waiting", new_task)
  /\ UNCHANGED <<iteration, max_iterations, messages, context,
                 start_time, actions_taken, observations, errors>>

\* (changed) resuming restarts the iteration count
resume_from_waiting_reset_iteration(new_task) ==
  /\ Tick
  /\ waiting_for_input' = FALSE
  /\ stop_requested' = FALSE
  /\ completed' = FALSE
  /\ llm_failed' = FALSE
  /\ iteration' = 0
  /\ task' = IF Truthy(new_task) THEN new_task[1] ELSE task
  /\ last_updated' = now'
  /\ Called("resume_from_waiting", new_task)
  /\ UNCHANGED <<max_iterations, final_result, messages, context,
                 start_time, actions_taken, observations, errors>>

resume_from_waiting(new_task) ==
  /\ Tick
  /\ waiting_for_input' = FALSE
  /\ stop_requested' = FALSE
  /\ completed' = FALSE
  /\ llm_failed' = FALSE
  /\ task' = IF Truthy(new_task) THEN new_task[1] ELSE task
  /\ last_updated' = now'
  /\ Called("resume_from_waiting", new_task)
  /\ UNCHANGED <<iteration, max_iterations, final_result, messages, context,
                 start_time, actions_taken, observations, errors>>

\* ---- reads ----
\* (changed) the limit is reached one iteration late
has_reached_max_iterations_value_late == iteration > max_iterations

has_reached_max_iterations_value == iteration >= max_iterations

should_stop_value ==
  stop_requested \/ completed \/ has_reached_max_iterations_value

\* s[-count:] for 0 <= count <= len(s): -0 is 0, so count = 0 is the whole list
LastSlice(s, count) ==
  IF count = 0 THEN s ELSE SubSeq(s, Len(s) - count + 1, Len(s))

has_empty_last_messages_value(count) ==
  IF Len(messages) < count THEN FALSE
  ELSE LET last_messages == LastSlice(messages, count) IN
       ~ \E i \in 1..Len(last_messages) :
            /\ last_messages[i].content.isstr
            /\ strip(last_messages[i].content.chars) /= <<>>

get_execution_summary_value ==
  [task |-> task,
   iteration |-> iteration,
   max_iterations |-> max_iterations,
   completed |-> completed,
   final_result |-> final_result,
   start_time |-> start_time,
   last_updated |-> last_updated,
   total_actions |-> Len(actions_taken),
   total_observations |-> Len(observations),
   total_errors |-> Len(errors),
   has_errors |-> Len(errors) > 0,
   max_iterations_reached |-> has_reached_max_iterations_value /\ ~completed]

should_stop == Returned("should_stop", None, should_stop_value)

\* (changed) reading the flag consumes it
is_waiting_for_input_consume ==
  /\ lastOp' = "is_waiting_for_input" /\ lastArg' = None /\ ret' = waiting_for_input
  /\ before' = fields
  /\ UNCHANGED <<queueVars, llmVars, requestVars>>
  /\ waiting_for_input' = FALSE
  /\ UNCHANGED <<task, iteration, max_iterations, completed, stop_requested,
                 llm_failed, final_result, messages, context, start_time,
                 last_updated, actions_taken, observations, errors, now>>

is_waiting_for_input == Returned("is_waiting_for_input", None, waiting_for_input)

has_reached_max_iterations ==
  Returned("has_reached_max_iterations", None, has_reached_max_iterations_value)

has_empty_last_messages(count) ==
  Returned("has_empty_last_messages", count, has_empty_last_messages_value(count))

get_conversation_history == Returned("get_conversation_history", None, messages)

get_execution_summary ==
  Returned("get_execution_summary", None, get_execution_summary_value)

NextState ==
  \/ increment_iteration
  \/ \E role \in Roles, content \in Contents : add_message(role, content)
  \/ \E action \in Actions : add_action(action)
  \/ \E observation \in Observations : add_observation(observation)
  \/ \E error \in Errors : add_error(error)
  \/ \E key \in Keys, value \in Values : update_context(key, value)
  \/ \E final \in FinalResults : set_completed(final)
  \/ request_stop
  \/ \E failed \in BOOLEAN : enter_waiting_state(failed)
  \/ \E new_task \in NewTasks : resume_from_waiting(new_task)
  \/ should_stop
  \/ is_waiting_for_input
  \/ has_reached_max_iterations
  \/ has_empty_last_messages(DefaultCount)
  \/ get_conversation_history
  \/ get_execution_summary

\* (changed) the loop counts an iteration without asking should_stop()
loop_increment_iteration_unchecked == increment_iteration

\* the orchestration loop counts an iteration only when should_stop() is
\* false
loop_increment_iteration ==
  /\ ~should_stop_value
  /\ increment_iteration

\* an agent driven by such a loop
NextLoop ==
  \/ loop_increment_iteration
  \/ \E role \in Roles, content \in Contents : add_message(role, content)
  \/ \E action \in Actions : add_action(action)
  \/ \E error \in Errors : add_error(error)
  \/ \E final \in FinalResults : set_completed(final)
  \/ request_stop
  \/ \E failed \in BOOLEAN : enter_waiting_state(failed)
  \/ \E new_task \in NewTasks : resume_from_waiting(new_task)
  \/ should_stop

(* ------------------------------------------------------------------ *)
(* Request queue                      llm/llm.py:371-372 and spec 4.3 *)
(* ------------------------------------------------------------------ *)
Agents == 1..NumAgents

Outcomes == {"ok", "failed"}

Executing == {a \in Agents : qpc[a] = "executing"}

\* the sequence s without its elements equal to x
Without(s, x) == SelectSeq(s, LAMBDA y : y /= x)

\* queue.make_request(completion_args): the caller joins the waiting line
Submit(a) ==
  /\ qpc[a] = "idle"
  /\ qpc' = [qpc EXCEPT ![a] = "waiting"]
  /\ waiting' = Append(waiting, a)
  /\ arrivals' = Append(arrivals, a)
  /\ result' = [result EXCEPT ![a] = "none"]
  /\ UNCHANGED <<permits, bypassed>>

\* LLM._make_request: the agent submits its request and suspends; an agent
\* never issues a second generate() before the first completes
make_request(a) ==
  /\ Submit(a)
  /\ UNCHANGED <<stateVars, llmVars, requestVars>>

\* the caller a leaves the waiting line and takes a slot
Enter(a) ==
  /\ qpc' = [qpc EXCEPT ![a] = "executing"]
  /\ waiting' = Without(waiting, a)
  /\ arrivals' = Without(arrivals, a)
  /\ bypassed' = {b \in Agents : b /= a /\ qpc[b] = "waiting"}
  /\ permits' = permits - 1
  /\ UNCHANGED result
  /\ UNCHANGED <<stateVars, llmVars, requestVars>>

\* (changed) a free slot goes to any waiting caller
Admit_any ==
  /\ waiting /= <<>>
  /\ permits > 0
  /\ \E i \in 1..Len(waiting) : Enter(waiting[i])

\* (changed) a caller is admitted without looking at the free slots
Admit_uncapped ==
  /\ waiting /= <<>>
  /\ Enter(Head(waiting))

\* the queue gives a free slot to the oldest waiting caller
Admit ==
  /\ waiting /= <<>>
  /\ permits > 0
  /\ Enter(Head(waiting))

\* (changed) a failed request keeps its slot
Finish_leak(a, outcome) ==
  /\ qpc[a] = "executing"
  /\ qpc' = [qpc EXCEPT ![a] = "idle"]
  /\ result' = [result EXCEPT ![a] = outcome]
  /\ permits' = IF outcome = "failed" THEN permits ELSE permits + 1
  /\ UNCHANGED <<waiting, arrivals, bypassed>>
  /\ UNCHANGED <<stateVars, llmVars, requestVars>>

\* an executing request ends (success, failure or timeout): its slot is
\* released and the raw result or the error goes to its submitter
Finish(a, outcome) ==
  /\ qpc[a] = "executing"
  /\ qpc' = [qpc EXCEPT ![a] = "idle"]
  /\ result' = [result EXCEPT ![a] = outcome]
  /\ permits' = permits + 1
  /\ UNCHANGED <<waiting, arrivals, bypassed>>
  /\ UNCHANGED <<stateVars, llmVars, requestVars>>

NextQueue ==
  \/ \E a \in Agents : make_request(a)
  \/ Admit
  \/ \E a \in Agents, outcome \in Outcomes : Finish(a, outcome)

(* ------------------------------------------------------------------ *)
(* LLM request pipeline                                   llm/llm.py  *)
(* ------------------------------------------------------------------ *)
\* the agent that owns the LLM instance
Self == 1

\* message content: a str, or a list of content parts
TextContent(t) == [isstr |-> TRUE, text |-> t, parts |-> <<>>]

PartsContent(ps) == [isstr |-> FALSE, text |-> "", parts |-> ps]

Message(role, content) == [role |-> role, content |-> content]

\* LLM.system_prompt, bound once at construction
SystemPrompt == "You are a helpful AI assistant."

SystemMessage == Message("system", TextContent(SystemPrompt))

HistoryMessages ==
  {Message("user", TextContent("u")), Message("assistant", TextContent("a"))}

\* the histories a caller builds
Histories == UNION {[1..n -> HistoryMessages] : n \in 0..MaxHistory}

\* LLMConfig as far as the pipeline reads it, with what litellm's
\* supports_prompt_caching(model_name) answers for the model
Configs ==
  {[model_name |-> "openai/gpt-5", enable_prompt_caching |-> TRUE, supports |-> TRUE],
   [model_name |-> "anthropic/claude-sonnet-4", enable_prompt_caching |-> TRUE, supports |-> TRUE],
   [model_name |-> "anthropic/claude-sonnet-4", enable_prompt_caching |-> FALSE, supports |-> TRUE],
   [model_name |-> "anthropic/claude-sonnet-4", enable_prompt_caching |-> TRUE, supports |-> FALSE]}

RequestStats(requests) ==
  [input_tokens |-> 0, output_tokens |-> 0, cached_tokens |-> 0,
   cache_creation_tokens |-> 0, cost |-> 0, requests |-> requests,
   failed_requests |-> 0]

\* MemoryCompressor.compress_history: the number of recent messages that fit
\* the token budget, and the message that stands for the older ones
KeepRecent == 2

SummaryMessage == Message("user", TextContent("summary"))

\* (changed) a history that fills the budget loses its oldest message
compress_history_keeps_shrinking(h) ==
  IF Len(h) < KeepRecent THEN h ELSE Tail(h)

compress_history(h) ==
  IF Len(h) <= KeepRecent THEN h
  ELSE <<SummaryMessage>> \o SubSeq(h, Len(h) - KeepRecent + 2, Len(h))

\* the lists a caller passes to generate(): a history it built, or the list
\* an earlier call left compressed
CallerHistories == Histories \cup {compress_history(h) : h \in Histories}

_add_cache_control_to_content(content) ==
  IF content.isstr
    THEN PartsContent(<<[type |-> "text", text |-> content.text, cache_control |-> TRUE]>>)
  ELSE IF content.parts /= <<>> /\ content.parts[Len(content.parts)].type = "text"
    THEN PartsContent([content.parts EXCEPT ![Len(content.parts)] =
                         [@ EXCEPT !.cache_control = TRUE]])
  ELSE content

_is_anthropic_model(c) == c.model_name = "anthropic/claude-sonnet-4"

\* (changed) the quotient is taken exactly, not rounded down
RECURSIVE GrowInterval_exact(_, _)
GrowInterval_exact(non_system_messages, interval) ==
  IF non_system_messages > 3 * interval
    THEN GrowInterval_exact(non_system_messages, interval + 10)
    ELSE interval

RECURSIVE GrowInterval(_, _)
GrowInterval(non_system_messages, interval) ==
  IF non_system_messages \div interval > 3
    THEN GrowInterval(non_system_messages, interval + 10)
    ELSE interval

_calculate_cache_interval(total_messages) ==
  IF total_messages <= 1 THEN 10 ELSE GrowInterval(total_messages - 1, 10)

\* (changed) every tenth message is annotated
CachedIndexes_every_tenth(total_messages) ==
  {i \in 1..(total_messages - 1) : i % 10 = 0}

\* the indexes (from 0) of the messages the loop annotates
CachedIndexes(total_messages) ==
  LET interval == _calculate_cache_interval(total_messages)
  IN  {i \in 1..(total_messages - 1) : i % interval = 0 /\ i \div interval <= 3}

_prepare_cached_messages(c, msgs) ==
  IF ~c.enable_prompt_caching \/ ~c.supports \/ msgs = <<>> THEN msgs
  ELSE IF ~_is_anthropic_model(c) THEN msgs
  ELSE [i \in 1..Len(msgs) |->
          IF \/ i = 1 /\ msgs[1].role = "system"
             \/ (i - 1) \in CachedIndexes(Len(msgs))
            THEN [msgs[i] EXCEPT !.content = _add_cache_control_to_content(@)]
            ELSE msgs[i]]

\* assistant text as a sequence of pieces: plain text, the opening tag of an
\* invocation block, and the closing tag
Text == "text"

Open == "<function=x>"

Close == "</function>"

\* the position of the first tok in c at or after from, 0 when there is none
Find(c, tok, from) ==
  LET at == {i \in from..Len(c) : c[i] = tok}
  IN  IF at = {} THEN 0 ELSE CHOOSE i \in at : \A j \in at : i <= j

\* with more than one invocation block, the text up to and including the
\* first complete closing tag of the first block
_truncate_to_first_function(c) ==
  LET first == Find(c, Open, 1)
      second == IF first = 0 THEN 0 ELSE Find(c, Open, first + 1)
      end == IF first = 0 THEN 0 ELSE Find(c, Close, first + 1)
  IN  IF second = 0 \/ end = 0 THEN c ELSE SubSeq(c, 1, end)

\* llm.py:256-258
CutAtFunctionEnd(c) ==
  IF Find(c, Close, 1) /= 0 THEN SubSeq(c, 1, Find(c, Close, 1)) ELSE c

\* the invocations, in textual order: one for each opening tag that is closed
\* before the next opening tag
parse_tool_invocations(c) ==
  LET closed(i) == /\ c[i] = Open
                   /\ Find(c, Close, i + 1) /= 0
                   /\ \/ Find(c, Open, i + 1) = 0
                      \/ Find(c, Close, i + 1) < Find(c, Open, i + 1)
  IN  SelectSeq([i \in 1..Len(c) |-> IF closed(i) THEN i ELSE 0], LAMBDA i : i /= 0)

\* llm.py:246-258: the assistant text of the response ("" when absent),
\* truncated
ContentOf(message_content) ==
  LET content == IF message_content = None THEN <<>> ELSE message_content[1]
  IN  CutAtFunctionEnd(_truncate_to_first_function(content))

\* response.usage as litellm fills it
Usage(p, c, cached, creation) ==
  [prompt_tokens |-> p, completion_tokens |-> c, cached_tokens |-> cached,
   cache_creation_input_tokens |-> creation]

\* a raw response: content (None when absent), usage (None when absent),
\* completion_cost (None when it raises) and the counter (1..4, 0 for none)
\* whose extraction raises
Response(content, usage, cost, failAt) ==
  [kind |-> "response", content |-> content, usage |-> usage, cost |-> cost,
   failAt |-> failAt]

Responses ==
  {Response(c, Some(Usage(5, 7, 3, 2)), Some(2), 0) :
     c \in {None, Some(<<>>), Some(<<Text>>), Some(<<Text, Open, Text, Close, Text>>),
            Some(<<Open, Close, Open, Close>>)}}
  \cup {Response(Some(<<Text>>), None, cost, 0) : cost \in {None, Some(2)}}
  \cup {Response(Some(<<Text>>), Some(Usage(5, 7, 3, 2)), cost, 0) : cost \in {None, Some(0)}}
  \cup {Response(Some(<<Text>>), Some(Usage(5, 7, 3, 2)), Some(2), k) : k \in 1..4}

\* the except clauses of generate() in source order, with their labels
Handlers ==
  << <<"RateLimitError", "Rate limit exceeded">>,
     <<"AuthenticationError", "Invalid API key">>,
     <<"NotFoundError", "Model not found">>,
     <<"ContextWindowExceededError", "Context too long">>,
     <<"ContentPolicyViolationError", "Content policy violation">>,
     <<"ServiceUnavailableError", "Service unavailable">>,
     <<"Timeout", "Request timed out">>,
     <<"UnprocessableEntityError", "Unprocessable entity">>,
     <<"InternalServerError", "Internal server error">>,
     <<"APIConnectionError", "Connection error">>,
     <<"UnsupportedParamsError", "Unsupported parameters">>,
     <<"BudgetExceededError", "Budget exceeded">>,
     <<"APIResponseValidationError", "Response validation error">>,
     <<"JSONSchemaValidationError", "JSON schema validation error">>,
     <<"InvalidRequestError", "Invalid request">>,
     <<"BadRequestError", "Bad request">>,
     <<"APIError", "API error">>,
     <<"OpenAIError", "OpenAI error">> >>

HandlerClasses == {Handlers[i][1] : i \in DOMAIN Handlers}

\* an exception: the handler classes it is an instance of, the name of its
\* runtime type, and str(e)
Error(classes, type, text) ==
  [kind |-> "error", classes |-> classes, type |-> type, text |-> text]

\* what the awaited request can raise: an instance of one handler class, of
\* several (a subclass), or of none
BackendErrors ==
  {Error({c}, c, "boom") : c \in HandlerClasses}
  \cup {Error({}, "KeyError", "boom"),
        Error({"ContextWindowExceededError", "BadRequestError", "APIError", "OpenAIError"},
              "ContextWindowExceededError", "too long"),
        Error({"RateLimitError", "APIError", "OpenAIError"}, "RateLimitError", "slow down"),
        Error({"JSONSchemaValidationError", "APIResponseValidationError"},
              "JSONSchemaValidationError", "bad schema"),
        Error({"BadRequestError", "InvalidRequestError"}, "InvalidRequestError", "boom")}

Matching(e) == {i \in DOMAIN Handlers : Handlers[i][1] \in e.classes}

\* (changed) the chain without its last clause: an exception of no handler
\* class leaves generate() as it is
Raised_no_catch_all(e) ==
  IF Matching(e) = {}
    THEN [kind |-> "raised", type |-> e.type,
          message |-> <<>>, details |-> e.text]
    ELSE [kind |-> "raised", type |-> "LLMRequestFailedError",
          message |-> <<"LLM request failed: ",
                        Handlers[CHOOSE i \in Matching(e) : \A j \in Matching(e) : i <= j][2]>>,
          details |-> e.text]

\* llm.py:270-313: the first clause that matches raises LLMRequestFailedError
Raised(e) ==
  [kind |-> "raised", type |-> "LLMRequestFailedError",
   message |-> <<"LLM request failed: ",
                 IF Matching(e) = {} THEN e.type
                 ELSE Handlers[CHOOSE i \in Matching(e) : \A j \in Matching(e) : i <= j][2]>>,
   details |-> e.text]

\* the counters _update_usage_stats extracts from a response
Extracted(r) ==
  [input_tokens |-> IF r.usage = None THEN 0 ELSE r.usage[1].prompt_tokens,
   output_tokens |-> IF r.usage = None THEN 0 ELSE r.usage[1].completion_tokens,
   cached_tokens |-> IF r.usage = None THEN 0 ELSE r.usage[1].cached_tokens,
   cache_creation_tokens |->
     IF r.usage = None THEN 0 ELSE r.usage[1].cache_creation_input_tokens,
   cost |-> IF r.cost = None THEN 0 ELSE r.cost[1]]

Counters == <<"input_tokens", "output_tokens", "cached_tokens",
              "cache_creation_tokens", "cost">>

\* total.<counter> += <counter>, for the first n counters
AddCounters(stats, x, n) ==
  [k \in DOMAIN stats |->
     IF \E i \in 1..n : Counters[i] = k THEN stats[k] + x[k] ELSE stats[k]]

\* last.<counter> = <counter>, for the first n counters
SetCounters(stats, x, n) ==
  [k \in DOMAIN stats |->
     IF \E i \in 1..n : Counters[i] = k THEN x[k] ELSE stats[k]]

\* (changed) each counter is applied as soon as it is extracted
_update_usage_stats_unstaged(stats, r) ==
  LET n == IF r.failAt > 0 /\ r.usage /= None THEN r.failAt - 1 ELSE 5
  IN  [total |-> AddCounters(stats.total, Extracted(r), n),
       last |-> SetCounters(stats.last, Extracted(r), n)]

\* (changed) a failure of completion_cost is not caught on its own
_update_usage_stats_cost_unguarded(stats, r) ==
  IF (r.failAt > 0 /\ r.usage /= None) \/ r.cost = None THEN stats
  ELSE [total |-> AddCounters(stats.total, Extracted(r), 5),
        last |-> SetCounters(stats.last, Extracted(r), 5)]

\* llm.py:379-427: every counter is extracted before the first one is
\* applied; an exception on the way is logged and nothing is applied
_update_usage_stats(stats, r) ==
  IF r.failAt > 0 /\ r.usage /= None THEN stats
  ELSE [total |-> AddCounters(stats.total, Extracted(r), 5),
        last |-> SetCounters(stats.last, Extracted(r), 5)]

\* LLM.__init__
LLM_init(c) ==
  /\ lpc = "new"
  /\ lpc' = "idle"
  /\ config' = Some(c)
  /\ total_stats' = RequestStats(0)
  /\ last_request_stats' = RequestStats(0)
  /\ UNCHANGED <<history, outbound, generated, callArg, backend, statsAtCall,
                 calls, submissions>>
  /\ UNCHANGED <<stateVars, queueVars, requestVars>>

\* (changed) the compressed history is kept in a local list
generate_local_copy(h) ==
  /\ lpc = "idle"
  /\ calls < MaxCalls
  /\ history' = h
  /\ outbound' = _prepare_cached_messages(config[1], <<SystemMessage>> \o compress_history(h))
  /\ Submit(Self)
  /\ lpc' = "awaiting"
  /\ generated' = [kind |-> "none"]
  /\ callArg' = Some(h)
  /\ statsAtCall' = Some([total |-> total_stats, last |-> last_request_stats])
  /\ calls' = calls + 1
  /\ submissions' = submissions + 1
  /\ UNCHANGED <<config, total_stats, last_request_stats, backend>>
  /\ UNCHANGED <<stateVars, requestVars>>

\* generate(conversation_history) up to the await in _make_request
\* (llm.py:232-240, 354-372): h is the content of the caller's list
generate(h) ==
  /\ lpc = "idle"
  /\ calls < MaxCalls
  /\ history' = compress_history(h)
  /\ outbound' = _prepare_cached_messages(config[1], <<SystemMessage>> \o compress_history(h))
  /\ Submit(Self)
  /\ lpc' = "awaiting"
  /\ generated' = [kind |-> "none"]
  /\ callArg' = Some(h)
  /\ statsAtCall' = Some([total |-> total_stats, last |-> last_request_stats])
  /\ calls' = calls + 1
  /\ submissions' = submissions + 1
  /\ UNCHANGED <<config, total_stats, last_request_stats, backend>>
  /\ UNCHANGED <<stateVars, requestVars>>

\* what generate() does with a response (llm.py:374-375, 244-268)
Completed(r) ==
  LET counted == [total |-> [total_stats EXCEPT !.requests = @ + 1],
                  last |-> RequestStats(1)]
      stats == _update_usage_stats(counted, r)
      content == ContentOf(r.content)
      tool_invocations == parse_tool_invocations(content)
  IN  /\ total_stats' = stats.total
      /\ last_request_stats' = stats.last
      /\ generated' = [kind |-> "returned", role |-> "agent", content |-> content,
                       tool_invocations |->
                         IF tool_invocations /= <<>> THEN Some(tool_invocations) ELSE None]

\* what generate() does with an exception of the awaited request
Failed(e) ==
  /\ generated' = Raised(e)
  /\ UNCHANGED <<total_stats, last_request_stats>>

\* (changed) a failed request is submitted once more
generate_resume_retry(reply) ==
  /\ lpc = "awaiting"
  /\ qpc[Self] = "idle"
  /\ reply.kind = (IF result[Self] = "ok" THEN "response" ELSE "error")
  /\ backend' = Some(reply)
  /\ IF reply.kind = "error" /\ submissions < 2 * calls
       THEN /\ Submit(Self)
            /\ submissions' = submissions + 1
            /\ UNCHANGED <<lpc, callArg, generated, total_stats, last_request_stats>>
       ELSE /\ lpc' = "idle"
            /\ callArg' = None
            /\ IF reply.kind = "response" THEN Completed(reply) ELSE Failed(reply)
            /\ UNCHANGED <<submissions, queueVars>>
  /\ UNCHANGED <<config, history, outbound, statsAtCall, calls>>
  /\ UNCHANGED <<stateVars, requestVars>>

\* (changed) a failed call gives the caller its uncompressed history back
generate_resume_restore(reply) ==
  /\ lpc = "awaiting"
  /\ qpc[Self] = "idle"
  /\ reply.kind = (IF result[Self] = "ok" THEN "response" ELSE "error")
  /\ backend' = Some(reply)
  /\ lpc' = "idle"
  /\ callArg' = None
  /\ history' = IF reply.kind = "error" THEN callArg[1] ELSE history
  /\ IF reply.kind = "response" THEN Completed(reply) ELSE Failed(reply)
  /\ UNCHANGED <<config, outbound, statsAtCall, calls, submissions>>
  /\ UNCHANGED <<stateVars, queueVars, requestVars>>

\* generate() from the await on: the queue hands over the raw response or
\* raises the error of the request
generate_resume(reply) ==
  /\ lpc = "awaiting"
  /\ qpc[Self] = "idle"
  /\ reply.kind = (IF result[Self] = "ok" THEN "response" ELSE "error")
  /\ backend' = Some(reply)
  /\ lpc' = "idle"
  /\ callArg' = None
  /\ IF reply.kind = "response" THEN Completed(reply) ELSE Failed(reply)
  /\ UNCHANGED <<config, history, outbound, statsAtCall, calls, submissions>>
  /\ UNCHANGED <<stateVars, queueVars, requestVars>>

\* the assistant text of a response on its own (llm.py:246-258)
extract_content(message_content) ==
  /\ lpc = "new"
  /\ backend' = Some(Response(message_content, None, None, 0))
  /\ generated' = [kind |-> "returned", role |-> "agent",
                   content |-> ContentOf(message_content),
                   tool_invocations |-> None]
  /\ UNCHANGED <<lpc, config, history, outbound, total_stats, last_request_stats,
                 callArg, statsAtCall, calls, submissions>>
  /\ UNCHANGED <<stateVars, queueVars, requestVars>>

\* the assistant texts of a response, None when the response has none
RawContents ==
  {None} \cup {Some(c) : c \in UNION {[1..n -> {Text, Open, Close}] : n \in 0..MaxContent}}

NextContent == \E message_content \in RawContents : extract_content(message_content)

NextLLM ==
  \/ \E c \in Configs : LLM_init(c)
  \/ \E h \in CallerHistories : generate(h)
  \/ Admit
  \/ \E outcome \in Outcomes : Finish(Self, outcome)
  \/ \E reply \in Responses \cup BackendErrors : generate_resume(reply)

(* ------------------------------------------------------------------ *)
(* LLMConfig and the request specification   llm/config.py, llm/llm.py *)
(* ------------------------------------------------------------------ *)
\* a model identifier is the sequence of its "/"-separated parts; a part is
\* its lower-case spelling and whether it is written with capitals
Part(base, caps) == [base |-> base, caps |-> caps]

\* str.lower()
Lower(id) == [i \in DOMAIN id |-> Part(id[i].base, FALSE)]

\* the empty string
Empty == <<Part("", FALSE)>>

\* os.getenv("STRIX_LLM", "openai/gpt-5") when the variable is not set
DefaultModel == <<Part("openai", FALSE), Part("gpt-5", FALSE)>>

MODELS_WITHOUT_STOP_WORDS ==
  {"gpt-5", "gpt-5-mini", "gpt-5-nano", "o1-mini", "o1-preview", "o1",
   "o1-2024-12-17", "o3", "o3-2025-04-16", "o3-mini-2025-01-31", "o3-mini",
   "o4-mini", "o4-mini-2025-04-16", "grok-4-0709"}

REASONING_EFFORT_SUPPORTED_MODELS ==
  {"gpt-5", "gpt-5-mini", "gpt-5-nano", "o1-2024-12-17", "o1", "o3",
   "o3-2025-04-16", "o3-mini-2025-01-31", "o3-mini", "o4-mini",
   "o4-mini-2025-04-16", "gemini-2.5-flash", "gemini-2.5-pro"}

\* 1.0 in halves
One == 2

Temperatures == (0 - MaxTemperature)..MaxTemperature

BaseNames == {"gpt-5", "o1-mini", "gemini-2.5-pro", "claude-sonnet-4"}

\* the model identifiers given to LLMConfig or found in STRIX_LLM
ModelNames ==
  {Empty}
  \cup {<<Part(b, caps)>> : b \in BaseNames, caps \in BOOLEAN}
  \cup {<<Part("openai", FALSE), Part(b, caps)>> : b \in BaseNames, caps \in BOOLEAN}
  \cup {<<Part("openai", TRUE), Part("gpt-5", FALSE)>>,
        <<Part("openrouter", FALSE), Part("openai", FALSE), Part("gpt-5", FALSE)>>,
        <<Part("gpt-5", FALSE), Part("custom", FALSE)>>,
        <<Part("gpt-5", FALSE), Part("", FALSE)>>}

EnvValues == {None, Some(Empty), Some(<<Part("openai", FALSE), Part("o1-mini", FALSE)>>)}

\* (changed) an explicit model name is one that is not None
Resolved_not_none(model_name, env) ==
  IF model_name /= None THEN model_name[1]
  ELSE IF env /= None THEN env[1] ELSE DefaultModel

\* config.py:12: model_name or os.getenv("STRIX_LLM", "openai/gpt-5")
Resolved(model_name, env) ==
  IF model_name /= None /\ model_name[1] /= Empty THEN model_name[1]
  ELSE IF env /= None THEN env[1] ELSE DefaultModel

\* (changed) only the upper end is clamped
Clamp_upper_only(t) == IF t < One THEN t ELSE One

\* config.py:17: max(0.0, min(1.0, temperature))
Clamp(t) ==
  LET m == IF t < One THEN t ELSE One
  IN  IF m > 0 THEN m ELSE 0

\* LLMConfig.__init__
LLMConfig_init(model_name, env, temperature, enable_prompt_caching, prompt_modules) ==
  /\ llmconfig.kind = "none"
  /\ cfgArgs' = Some([model_name |-> model_name, env |-> env,
                      temperature |-> temperature,
                      enable_prompt_caching |-> enable_prompt_caching,
                      prompt_modules |-> prompt_modules])
  /\ llmconfig' =
       IF Resolved(model_name, env) = Empty
         THEN [kind |-> "raised", type |-> "ValueError"]
         ELSE [kind |-> "config",
               model_name |-> Resolved(model_name, env),
               temperature |-> Clamp(temperature),
               enable_prompt_caching |-> enable_prompt_caching,
               prompt_modules |-> IF prompt_modules = None \/ prompt_modules[1] = <<>>
                                    THEN <<>> ELSE prompt_modules[1]]
  /\ UNCHANGED <<completion_args, intervalCall, cacheCall>>
  /\ UNCHANGED <<stateVars, queueVars, llmVars>>

\* a model identifier equals a list entry as a whole or in its last part,
\* both taken in lower case
OnList(id, list) ==
  \E entry \in list :
    \/ Lower(<<id[Len(id)]>>) = <<Part(entry, FALSE)>>
    \/ Lower(id) = <<Part(entry, FALSE)>>

\* (changed) the comparison keeps the capitals of the identifier
_should_include_stop_param_case_sensitive(c) ==
  IF c.model_name = Empty THEN TRUE
  ELSE ~\E entry \in MODELS_WITHOUT_STOP_WORDS :
          \/ <<c.model_name[Len(c.model_name)]>> = <<Part(entry, FALSE)>>
          \/ c.model_name = <<Part(entry, FALSE)>>

_should_include_stop_param(c) ==
  IF c.model_name = Empty THEN TRUE
  ELSE ~OnList(c.model_name, MODELS_WITHOUT_STOP_WORDS)

_should_include_reasoning_effort(c) ==
  IF c.model_name = Empty THEN FALSE
  ELSE OnList(c.model_name, REASONING_EFFORT_SUPPORTED_MODELS)

\* llm.py:358-369: completion_args; an absent key is None
CompletionArgs(c, msgs) ==
  [model |-> c.model_name,
   messages |-> msgs,
   temperature |-> c.temperature,
   timeout |-> 180,
   stop |-> IF _should_include_stop_param(c) THEN Some(<<Close>>) ELSE None,
   reasoning_effort |-> IF _should_include_reasoning_effort(c) THEN Some("high") ELSE None]

\* _make_request up to the call of the queue, for an LLM with this config
build_completion_args ==
  /\ llmconfig.kind = "config"
  /\ completion_args = None
  /\ completion_args' = Some(CompletionArgs(llmconfig, <<SystemMessage>>))
  /\ UNCHANGED <<cfgArgs, llmconfig, intervalCall, cacheCall>>
  /\ UNCHANGED <<stateVars, queueVars, llmVars>>

NextRequest ==
  \/ \E model_name \in {None} \cup {Some(m) : m \in ModelNames},
        env \in EnvValues,
        temperature \in Temperatures,
        enable_prompt_caching \in BOOLEAN,
        prompt_modules \in {None, Some(<<"recon">>)} :
       LLMConfig_init(model_name, env, temperature, enable_prompt_caching, prompt_modules)
  \/ build_completion_args

(* ------------------------------------------------------------------ *)
(* Cache annotation on message lists of any length   llm.py:159-224   *)
(* ------------------------------------------------------------------ *)
TextPart == [type |-> "text", text |-> "m", cache_control |-> FALSE]

ImagePart == [type |-> "image_url", text |-> "", cache_control |-> FALSE]

\* the contents a message can have: a str, a list ending in a text part, a
\* list ending in another part
MessageContents ==
  {TextContent("m"), PartsContent(<<ImagePart, TextPart>>), PartsContent(<<ImagePart>>),
   PartsContent(<<TextPart, ImagePart>>)}

\* a list of n messages: the system message first when there is one, then
\* user and assistant messages in turn, all with the same content
MessageList(n, system, content) ==
  [i \in 1..n |->
     IF i = 1 /\ system THEN SystemMessage
     ELSE Message(IF i % 2 = 0 THEN "user" ELSE "assistant", content)]

_calculate_cache_interval_call(total_messages) ==
  /\ intervalCall = None
  /\ cacheCall = None
  /\ intervalCall' = Some([total_messages |-> total_messages,
                           interval |-> _calculate_cache_interval(total_messages)])
  /\ UNCHANGED <<cfgArgs, llmconfig, completion_args, cacheCall>>
  /\ UNCHANGED <<stateVars, queueVars, llmVars>>

\* (changed) the messages of the caller's list are annotated themselves
_prepare_cached_messages_call_in_place(c, msgs) ==
  /\ intervalCall = None
  /\ cacheCall = None
  /\ cacheCall' = Some([config |-> c, passed |-> msgs,
                        messages |-> _prepare_cached_messages(c, msgs),
                        cached_messages |-> _prepare_cached_messages(c, msgs)])
  /\ UNCHANGED <<cfgArgs, llmconfig, completion_args, intervalCall>>
  /\ UNCHANGED <<stateVars, queueVars, llmVars>>

\* passed is the argument as it was at the call, messages the caller's list
\* after the call: list(messages) and message.copy() (llm.py:200, 203, 219)
\* leave the caller's list and its messages as they were
_prepare_cached_messages_call(c, msgs) ==
  /\ intervalCall = None
  /\ cacheCall = None
  /\ cacheCall' = Some([config |-> c, passed |-> msgs, messages |-> msgs,
                        cached_messages |-> _prepare_cached_messages(c, msgs)])
  /\ UNCHANGED <<cfgArgs, llmconfig, completion_args, intervalCall>>
  /\ UNCHANGED <<stateVars, queueVars, llmVars>>

NextCache ==
  \/ \E total_messages \in 0..MaxMessages : _calculate_cache_interval_call(total_messages)
  \/ \E c \in Configs, n \in 0..MaxMessages, system \in BOOLEAN,
        content \in MessageContents :
       _prepare_cached_messages_call(c, MessageList(n, system, content))

(* ------------------------------------------------------------------ *)
(* Specifications                                                     *)
(* ------------------------------------------------------------------ *)
SpecState == Init /\ [][NextState]_vars

SpecLoop == Init /\ [][NextLoop]_vars

SpecQueue == Init /\ [][NextQueue]_vars

SpecLLM == Init /\ [][NextLLM]_vars

SpecContent == Init /\ [][NextContent]_vars

SpecRequest == Init /\ [][NextRequest]_vars

SpecCache == Init /\ [][NextCache]_vars

\* every in-flight request terminates and the scheduler is fair
SpecQueueFair ==
  /\ SpecQueue
  /\ WF_vars(Admit)
  /\ \A a \in Agents : WF_vars(\E outcome \in Outcomes : Finish(a, outcome))

(* ------------------------------------------------------------------ *)
(* Properties                                                         *)
(* ------------------------------------------------------------------ *)
\* the fields of the pre-state kept in `before`, by name
Before ==
  [task |-> before[1], iteration |-> before[2], max_iterations |-> before[3],
   completed |-> before[4], stop_requested |-> before[5],
   waiting_for_input |-> before[6], llm_failed |-> before[7],
   final_result |-> before[8], messages |-> before[9], context |-> before[10],
   start_time |-> before[11], last_updated |-> before[12],
   actions_taken |-> before[13], observations |-> before[14], errors |-> before[15]]

\* C1: should_stop() returns true iff stop_requested or completed or
\* iteration >= max_iterations; with no flag set it returns false at
\* iteration = max_iterations - 1 and true at iteration = max_iterations.
C1_ShouldStop ==
  lastOp = "should_stop" =>
    /\ ret = (stop_requested \/ completed \/ iteration >= max_iterations)
    /\ (~stop_requested /\ ~completed /\ iteration = max_iterations - 1) => ret = FALSE
    /\ iteration = max_iterations => ret = TRUE

C1_Witness ==
  /\ lastOp = "should_stop"
  /\ ~stop_requested /\ ~completed
  /\ iteration = max_iterations /\ iteration > 0
  /\ ret = TRUE

\* C2: the number of requests executing at the same time never exceeds the
\* fixed concurrency cap, however many agents submit.
C2_ConcurrencyCap == Cardinality(Executing) <= MaxConcurrent

C2_Witness ==
  /\ Cardinality(Executing) = MaxConcurrent
  /\ waiting /= <<>>

\* C3: with fair scheduling and terminating requests, every submitted request
\* is eventually admitted and every admitted request eventually completes.
C3_NoStarvation ==
  \A a \in Agents :
    /\ (qpc[a] = "waiting") ~> (qpc[a] = "executing")
    /\ (qpc[a] = "executing") ~> (qpc[a] = "idle" /\ result[a] \in Outcomes)

\* every agent has a request pending, more than there are slots, and the
\* latest admission left callers waiting
C3_Witness ==
  /\ permits = 0
  /\ Len(waiting) = NumAgents - MaxConcurrent
  /\ bypassed /= {}

\* position of x in the sequence s
Pos(s, x) == CHOOSE i \in 1..Len(s) : s[i] = x

\* C4: admission is FIFO: a caller is never admitted while a caller that
\* submitted before it is still waiting.
C4_FifoAdmission ==
  [][\A b \in Agents :
       (qpc[b] = "waiting" /\ qpc'[b] = "executing") =>
          \A a \in Agents \ {b} :
             qpc[a] = "waiting" => Pos(arrivals, b) < Pos(arrivals, a)]_vars

C4_Witness ==
  /\ bypassed /= {}
  /\ Executing /= {}

\* a request has failed and its submitter has not submitted again
SomeFailed == \E a \in Agents : result[a] = "failed"

\* C5: a failing request releases its slot, its failure goes to its submitter
\* only, the other callers are left as they were, and callers waiting after a
\* failure are still admitted.
C5_FailureIsolated ==
  /\ [][\A a \in Agents :
          (qpc[a] = "executing" /\ qpc'[a] = "idle" /\ result'[a] = "failed") =>
             /\ permits' = permits + 1
             /\ permits' + Cardinality(Executing') = MaxConcurrent
             /\ waiting' = waiting
             /\ \A b \in Agents \ {a} : qpc'[b] = qpc[b] /\ result'[b] = result[b]]_vars
  /\ \A b \in Agents :
       (SomeFailed /\ qpc[b] = "waiting") ~> (qpc[b] = "executing")

C5_Witness ==
  \E a \in Agents :
    /\ result[a] = "failed"
    /\ a \notin Executing
    /\ Cardinality(Executing) = MaxConcurrent

\* C6: resume_from_waiting leaves waiting_for_input, stop_requested, completed
\* and llm_failed all false, whatever they were before.
C6_ResumeClearsFlags ==
  lastOp = "resume_from_waiting" =>
    ~waiting_for_input /\ ~stop_requested /\ ~completed /\ ~llm_failed

C6_Witness ==
  /\ lastOp = "resume_from_waiting"
  /\ Before.waiting_for_input /\ Before.stop_requested
  /\ Before.completed /\ Before.llm_failed
  /\ ~waiting_for_input /\ ~stop_requested /\ ~completed /\ ~llm_failed

\* C7 (as claimed): resume_from_waiting(new_task) sets task to new_task for
\* every supplied string and leaves task unchanged when none is supplied.
C7_Original ==
  lastOp = "resume_from_waiting" =>
    task = IF lastArg /= None THEN lastArg[1] ELSE Before.task

\* C7 (amended): resume_from_waiting(new_task) sets task to new_task when a
\* non-empty string is supplied, and leaves task unchanged when no new task
\* or the empty string is supplied.
C7_ResumeTask ==
  lastOp = "resume_from_waiting" =>
    task = IF lastArg /= None /\ lastArg[1] /= "" THEN lastArg[1] ELSE Before.task

C7_Witness ==
  /\ lastOp = "resume_from_waiting"
  /\ lastArg = Some("")
  /\ Before.task = "new task"
  /\ task = "new task"

\* C8: only resume_from_waiting takes waiting_for_input from true to false.
C8_OnlyResumeLeavesWaiting ==
  (Before.waiting_for_input /\ ~waiting_for_input) => lastOp = "resume_from_waiting"

C8_Witness ==
  /\ lastOp \in Mutators \ {"resume_from_waiting", "enter_waiting_state"}
  /\ Before.waiting_for_input
  /\ waiting_for_input

\* C9: every mutator updates last_updated, so last_updated is the time of the
\* most recent mutator call (the clock is read by mutators only, so that time
\* is `now`).
C9_LastUpdated == lastOp \in Mutators => last_updated = now

\* C10: the read operations leave every field unchanged, last_updated included.
C10_ReadsAreReadOnly == lastOp \in Reads => fields = before

C10_Witness ==
  /\ lastOp \in Reads
  /\ waiting_for_input
  /\ Len(messages) > 0
  /\ last_updated = Before.last_updated

\* C11: final_result is changed only by set_completed; every other operation
\* (resume_from_waiting and enter_waiting_state included) leaves it unchanged.
C11_OnlySetCompletedSetsResult ==
  final_result /= Before.final_result => lastOp = "set_completed"

C11_Witness ==
  /\ lastOp \in {"resume_from_waiting", "enter_waiting_state"}
  /\ Before.final_result /= None
  /\ final_result = Before.final_result

\* C12: in every state reachable from a fresh AgentState, final_result being
\* non-null implies completed.
C12_ResultOnlyWhenCompleted == final_result /= None => completed

\* C13: increment_iteration raises iteration by exactly 1 and no other
\* operation changes it, so iteration never decreases.
C13_IterationMonotonic ==
  /\ iteration >= Before.iteration
  /\ iteration = IF lastOp = "increment_iteration"
                 THEN Before.iteration + 1 ELSE Before.iteration

C13_Witness ==
  /\ lastOp = "resume_from_waiting"
  /\ Before.iteration > 0
  /\ iteration = Before.iteration

\* the fields other than last_updated
ExceptLastUpdated(f) == [i \in (DOMAIN f) \ {12} |-> f[i]]

\* C14: set_completed(result) can be called from any state, always yields
\* completed = true and final_result = result, and calling it again with the
\* same result changes nothing but last_updated.
C14_SetCompleted ==
  /\ now < MaxTime => \A final \in FinalResults : ENABLED set_completed(final)
  /\ lastOp = "set_completed" =>
       /\ completed
       /\ final_result = lastArg
       /\ (Before.completed /\ Before.final_result = lastArg) =>
             ExceptLastUpdated(fields) = ExceptLastUpdated(before)

C14_Witness ==
  /\ lastOp = "set_completed"
  /\ Before.completed
  /\ Before.final_result /= None
  /\ Before.final_result = lastArg
  /\ Before.waiting_for_input

\* whitespace-only (or empty) string content
IsBlankString(content) ==
  content.isstr /\ \A i \in 1..Len(content.chars) : content.chars[i] = " "

\* C15: has_empty_last_messages(n) is true iff the history has at least n
\* messages and each of the last n has blank string content; non-string
\* content never counts as blank and a history shorter than n yields false.
C15_EmptyLastMessages ==
  lastOp = "has_empty_last_messages" =>
    ret = (/\ Len(messages) >= lastArg
           /\ \A i \in (Len(messages) - lastArg + 1)..Len(messages) :
                IsBlankString(messages[i].content))

\* the texts of a content, without the cache annotation
TextOf(content) ==
  IF content.isstr THEN <<content.text>>
  ELSE [i \in 1..Len(content.parts) |-> content.parts[i].text]

SameRoleAndText(m1, m2) ==
  m1.role = m2.role /\ TextOf(m1.content) = TextOf(m2.content)

CachingApplies ==
  /\ config[1].enable_prompt_caching
  /\ config[1].supports
  /\ _is_anthropic_model(config[1])

Ended == lpc = "idle" /\ generated.kind /= "none"

Labels == {Handlers[i][2] : i \in DOMAIN Handlers}

\* C17: a request that raises makes generate() raise LLMRequestFailedError,
\* and nothing else, with one label - that of the first except clause the
\* exception matches, or its runtime type name when it matches none - and
\* with the text of the exception as details.
C17_OneTypedFailure ==
  (Ended /\ backend[1].kind = "error") =>
    /\ generated.kind = "raised"
    /\ generated.type = "LLMRequestFailedError"
    /\ Len(generated.message) = 2
    /\ generated.message[1] = "LLM request failed: "
    /\ generated.message[2] \in Labels \cup {backend[1].type}
    /\ \A i \in Matching(backend[1]) :
         (\A j \in Matching(backend[1]) : i <= j) => generated.message[2] = Handlers[i][2]
    /\ Matching(backend[1]) = {} => generated.message[2] = backend[1].type
    /\ generated.details = backend[1].text

C17_Witness ==
  /\ Ended
  /\ backend[1].kind = "error"
  /\ Cardinality(Matching(backend[1])) = 4
  /\ generated.type = "LLMRequestFailedError"
  /\ generated.message[2] = "Context too long"
  /\ generated.details = "too long"

\* C18: every generate() call hands exactly one request to the queue,
\* whether the request succeeds or fails.
C18_OneRequestPerCall ==
  /\ submissions = calls
  /\ lpc = "awaiting" => qpc[Self] /= "idle" \/ result[Self] /= "none"

C18_Witness ==
  /\ Ended
  /\ calls = MaxCalls
  /\ submissions = MaxCalls
  /\ backend[1].kind = "error"
  /\ result[Self] = "failed"

\* C19: the returned content is the raw assistant text up to and including
\* the closing tag of the first invocation block, whenever that block is
\* complete, and the empty text when the response has no content.
C19_ContentUpToFirstBlock ==
  (generated.kind = "returned" /\ backend[1].kind = "response") =>
    LET raw == IF backend[1].content = None THEN <<>> ELSE backend[1].content[1]
        first == Find(raw, Open, 1)
        end == IF first = 0 THEN 0 ELSE Find(raw, Close, first + 1)
    IN  /\ backend[1].content = None => generated.content = <<>>
        /\ end /= 0 => generated.content = SubSeq(raw, 1, end)

TokenCounters == {Counters[i] : i \in DOMAIN Counters}

C21_CostFailureSwallowed ==
  (Ended /\ backend[1].kind = "response" /\ backend[1].cost = None
         /\ backend[1].failAt = 0) =>
    /\ generated.kind = "returned"
    /\ last_request_stats.cost = 0
    /\ total_stats.cost = statsAtCall[1].total.cost
    /\ \A k \in TokenCounters \ {"cost"} :
         /\ last_request_stats[k] = Extracted(backend[1])[k]
         /\ total_stats[k] = statsAtCall[1].total[k] + Extracted(backend[1])[k]

C21_Witness ==
  /\ Ended
  /\ backend[1].kind = "response"
  /\ backend[1].cost = None
  /\ backend[1].usage /= None
  /\ generated.kind = "returned"
  /\ last_request_stats.input_tokens = 5
  /\ last_request_stats.cost = 0
  /\ statsAtCall[1].total.cost > 0
  /\ total_stats.cost = statsAtCall[1].total.cost

\* C22: a constructed LLMConfig has temperature max(0, min(1, t)) for the t
\* it was given, and the request specification built from it carries that
\* temperature, which lies in [0, 1].
C22_TemperatureClamped ==
  /\ llmconfig.kind = "config" =>
       /\ llmconfig.temperature =
            (IF cfgArgs[1].temperature < 0 THEN 0
             ELSE IF cfgArgs[1].temperature > One THEN One
             ELSE cfgArgs[1].temperature)
       /\ llmconfig.temperature \in 0..One
  /\ completion_args /= None =>
       /\ completion_args[1].temperature = llmconfig.temperature
       /\ completion_args[1].temperature \in 0..One

C22_Witness ==
  /\ completion_args /= None
  /\ cfgArgs[1].temperature = 0 - 4
  /\ completion_args[1].temperature = 0

\* C23 as stated: the model name is the explicit value when one is given,
\* otherwise the global default (STRIX_LLM, or "openai/gpt-5" when that is
\* not set), and construction fails exactly when that name is empty.
C23_Original ==
  llmconfig.kind /= "none" =>
    LET name == IF cfgArgs[1].model_name /= None THEN cfgArgs[1].model_name[1]
                ELSE IF cfgArgs[1].env /= None THEN cfgArgs[1].env[1]
                ELSE DefaultModel
    IN  /\ llmconfig.kind = "raised" <=> name = Empty
        /\ llmconfig.kind = "config" => llmconfig.model_name = name

\* C23 amended: the model name is the explicit value when a non-empty one is
\* given, otherwise the global default; construction fails with ValueError
\* exactly when that name is empty - no non-empty explicit value and
\* STRIX_LLM set to the empty string - and then no request is built.
C23_ModelNameResolved ==
  llmconfig.kind /= "none" =>
    LET explicit == cfgArgs[1].model_name /= None /\ cfgArgs[1].model_name[1] /= Empty
        name == IF explicit THEN cfgArgs[1].model_name[1]
                ELSE IF cfgArgs[1].env /= None THEN cfgArgs[1].env[1]
                ELSE DefaultModel
    IN  /\ llmconfig.kind = "raised" <=> name = Empty
        /\ llmconfig.kind = "raised" <=> (~explicit /\ cfgArgs[1].env = Some(Empty))
        /\ llmconfig.kind = "raised" =>
             llmconfig.type = "ValueError" /\ completion_args = None
        /\ llmconfig.kind = "config" => llmconfig.model_name = name

C23_Witness ==
  /\ cfgArgs /= None
  /\ cfgArgs[1].model_name = Some(Empty)
  /\ cfgArgs[1].env = None
  /\ llmconfig.kind = "config"
  /\ llmconfig.model_name = DefaultModel
  /\ completion_args /= None

\* the part of a model identifier after its provider prefix: its last part
BareName(id) == <<id[Len(id)]>>

\* the identifier matches a list entry, capitals aside, as a whole or as the
\* part after the provider prefix
Listed(id, list) ==
  \E entry \in list :
    \/ Len(id) = 1 /\ id[1].base = entry
    \/ BareName(id)[1].base = entry

\* C26: the request specification has timeout 180, carries the stop sequence
\* exactly when the model is not on the denylist, and carries reasoning
\* effort "high" exactly when the model is on the allowlist.
C26_RequestParameters ==
  completion_args /= None =>
    /\ completion_args[1].timeout = 180
    /\ completion_args[1].model = llmconfig.model_name
    /\ completion_args[1].stop /= None
         <=> ~Listed(llmconfig.model_name, MODELS_WITHOUT_STOP_WORDS)
    /\ completion_args[1].stop /= None => completion_args[1].stop = Some(<<Close>>)
    /\ completion_args[1].reasoning_effort /= None
         <=> Listed(llmconfig.model_name, REASONING_EFFORT_SUPPORTED_MODELS)
    /\ completion_args[1].reasoning_effort /= None
         => completion_args[1].reasoning_effort = Some("high")

C26_Witness ==
  /\ completion_args /= None
  /\ llmconfig.model_name = <<Part("openai", FALSE), Part("o1-mini", TRUE)>>
  /\ completion_args[1].stop = None
  /\ completion_args[1].reasoning_effort = None

\* the multiples of 10 below r
SmallerIntervals(r) == {k \in 1..(r - 1) : k % 10 = 0}

\* C24 as stated, the quotient taken exactly: the interval is the smallest
\* multiple of 10 for which (non-system count / interval) <= 3.
C24_Original ==
  intervalCall /= None =>
    LET n == intervalCall[1].total_messages - 1
        r == intervalCall[1].interval
    IN  IF intervalCall[1].total_messages <= 1 THEN r = 10
        ELSE /\ r % 10 = 0 /\ r >= 10
             /\ n <= 3 * r
             /\ \A k \in SmallerIntervals(r) : n > 3 * k

\* C24 amended: the interval is the smallest multiple of 10 for which the
\* non-system count divided by the interval, rounded down, is at most 3; it
\* is 10 when total_messages <= 1 and 20 when total_messages = 41.
C24_CacheInterval ==
  intervalCall /= None =>
    LET n == intervalCall[1].total_messages - 1
        r == intervalCall[1].interval
    IN  /\ IF intervalCall[1].total_messages <= 1 THEN r = 10
           ELSE /\ r % 10 = 0 /\ r >= 10
                /\ n \div r <= 3
                /\ \A k \in SmallerIntervals(r) : n \div k > 3
        /\ intervalCall[1].total_messages = 41 => r = 20

C24_Witness ==
  /\ intervalCall /= None
  /\ intervalCall[1].total_messages = 41
  /\ intervalCall[1].interval = 20

\* the message carries a cache breakpoint
Marked(m) ==
  /\ ~m.content.isstr
  /\ m.content.parts /= <<>>
  /\ m.content.parts[Len(m.content.parts)].cache_control

\* the caching conditions of _prepare_cached_messages hold for the call
Annotating ==
  /\ cacheCall[1].config.enable_prompt_caching
  /\ cacheCall[1].config.supports
  /\ _is_anthropic_model(cacheCall[1].config)

\* the non-system positions (from 0) that carry a breakpoint in the result
MarkedPositions ==
  {i \in 1..(Len(cacheCall[1].cached_messages) - 1) :
     Marked(cacheCall[1].cached_messages[i + 1])}

\* C25: when the annotation applies to a list that starts with the system
\* message, the system message is marked, at most 3 other messages are
\* marked, and these sit at positions that are multiples of the computed
\* interval; roles and texts are kept, and no message is marked otherwise.
C25_CacheBreakpoints ==
  cacheCall /= None =>
    LET msgs == cacheCall[1].messages
        out == cacheCall[1].cached_messages
    IN  /\ Len(out) = Len(msgs)
        /\ \A i \in 1..Len(msgs) : SameRoleAndText(out[i], msgs[i])
        /\ Cardinality(MarkedPositions) <= 3
        /\ \A i \in MarkedPositions :
             i % _calculate_cache_interval(Len(msgs)) = 0
        /\ (Annotating /\ msgs /= <<>> /\ msgs[1].role = "system") => Marked(out[1])
        /\ ~Annotating => out = msgs

C25_Witness ==
  /\ cacheCall /= None
  /\ Annotating
  /\ Len(cacheCall[1].messages) = 80
  /\ Marked(cacheCall[1].cached_messages[1])
  /\ MarkedPositions = {20, 40, 60}

\* the last k elements of s
Suffix(s, k) == SubSeq(s, Len(s) - k + 1, Len(s))

\* C27: the history generate() leaves in the caller's list is a fixed point
\* of the compression (a further call on it changes nothing), and it ends
\* with the most recent messages of the history that was passed, verbatim;
\* a history within the budget is kept whole.
C27_CompressionIdempotent ==
  lpc = "awaiting" =>
    LET h == callArg[1]
        k == IF Len(h) <= KeepRecent THEN Len(h) ELSE KeepRecent - 1
    IN  /\ compress_history(history) = history
        /\ Len(history) <= Len(h)
        /\ Len(history) >= k
        /\ Suffix(history, k) = Suffix(h, k)
        /\ Len(h) <= KeepRecent => history = h

C27_Witness ==
  /\ lpc = "awaiting"
  /\ calls = 2
  /\ Len(history) = KeepRecent
  /\ history[1] = SummaryMessage
  /\ callArg[1] = history

\* C28: enter_waiting_state(llm_failed) sets waiting_for_input, clears
\* stop_requested, records llm_failed, and leaves completed, iteration,
\* task, final_result, messages, actions, observations and errors unchanged.
C28_EnterWaitingState ==
  lastOp = "enter_waiting_state" =>
    /\ waiting_for_input
    /\ ~stop_requested
    /\ llm_failed = lastArg
    /\ completed = Before.completed
    /\ iteration = Before.iteration
    /\ task = Before.task
    /\ final_result = Before.final_result
    /\ messages = Before.messages
    /\ actions_taken = Before.actions_taken
    /\ observations = Before.observations
    /\ errors = Before.errors

C28_Witness ==
  /\ lastOp = "enter_waiting_state"
  /\ lastArg = TRUE
  /\ Before.stop_requested
  /\ ~stop_requested
  /\ waiting_for_input
  /\ llm_failed
  /\ completed

\* the fields of the record f other than those at the positions in skip
Except(f, skip) == [i \in (DOMAIN f) \ skip |-> f[i]]

\* C29: request_stop() changes only stop_requested (to true) and
\* last_updated; with a stop requested every mutator can still be called
\* and has its effect.
C29_StopIsLazy ==
  /\ lastOp = "request_stop" =>
       /\ stop_requested
       /\ Except(fields, {5, 12}) = Except(before, {5, 12})
  /\ (stop_requested /\ now < MaxTime) =>
       /\ ENABLED increment_iteration
       /\ \A content \in Contents : ENABLED add_message("user", content)
       /\ \A final \in FinalResults : ENABLED set_completed(final)
       /\ \A failed \in BOOLEAN : ENABLED enter_waiting_state(failed)
       /\ ENABLED request_stop
  /\ Before.stop_requested =>
       /\ lastOp = "increment_iteration" => iteration = Before.iteration + 1
       /\ lastOp = "add_message" => Len(messages) = Len(Before.messages) + 1
       /\ lastOp = "set_completed" => completed /\ final_result = lastArg

C29_Witness ==
  /\ lastOp = "increment_iteration"
  /\ Before.stop_requested
  /\ stop_requested
  /\ iteration = Before.iteration + 1
  /\ iteration > max_iterations

\* the iteration stamps of the three lists, in list order
Stamps(list) == [i \in 1..Len(list) |-> list[i].iteration]

ErrorStamps == [i \in 1..Len(errors) |-> errors[i][2]]

NonDecreasingUpTo(stamps, top) ==
  /\ \A i \in 1..Len(stamps) : stamps[i] <= top
  /\ \A i, j \in 1..Len(stamps) : i < j => stamps[i] <= stamps[j]

\* C30: add_action, add_observation and add_error append one entry stamped
\* with the iteration at the call and leave the earlier entries alone; in each
\* list the stamps are non-decreasing and never above the current iteration.
C30_IterationStamps ==
  /\ lastOp = "add_action" =>
       /\ Len(actions_taken) = Len(Before.actions_taken) + 1
       /\ SubSeq(actions_taken, 1, Len(Before.actions_taken)) = Before.actions_taken
       /\ actions_taken[Len(actions_taken)].iteration = Before.iteration
       /\ actions_taken[Len(actions_taken)].action = lastArg
  /\ lastOp = "add_observation" =>
       /\ Len(observations) = Len(Before.observations) + 1
       /\ SubSeq(observations, 1, Len(Before.observations)) = Before.observations
       /\ observations[Len(observations)].iteration = Before.iteration
       /\ observations[Len(observations)].observation = lastArg
  /\ lastOp = "add_error" =>
       /\ Len(errors) = Len(Before.errors) + 1
       /\ SubSeq(errors, 1, Len(Before.errors)) = Before.errors
       /\ errors[Len(errors)] = <<"Iteration ", Before.iteration, ": ", lastArg>>
  /\ NonDecreasingUpTo(Stamps(actions_taken), iteration)
  /\ NonDecreasingUpTo(Stamps(observations), iteration)
  /\ NonDecreasingUpTo(ErrorStamps, iteration)

C30_Witness ==
  /\ lastOp = "add_error"
  /\ Len(actions_taken) = 2
  /\ actions_taken[1].iteration = 0
  /\ actions_taken[2].iteration = 1
  /\ ErrorStamps = <<1>>
  /\ iteration = 1

\* the positions of the text parts of a content
TextItems(content) ==
  {k \in 1..Len(content.parts) : content.parts[k].type = "text"}

\* new is old with cache metadata added to its last textual item and nothing
\* else changed: a str becomes one text part with the same text, a list keeps
\* every part, the marked one being its last part and a text part
AnnotatedCopy(old, new) ==
  /\ new.role = old.role
  /\ ~new.content.isstr
  /\ IF old.content.isstr
       THEN new.content.parts =
              <<[type |-> "text", text |-> old.content.text, cache_control |-> TRUE]>>
       ELSE /\ Len(new.content.parts) = Len(old.content.parts)
            /\ TextItems(old.content) /= {}
            /\ \A k \in 1..Len(old.content.parts) :
                 IF \A j \in TextItems(old.content) : j <= k
                   THEN /\ k = Len(old.content.parts)
                        /\ new.content.parts[k] =
                             [old.content.parts[k] EXCEPT !.cache_control = TRUE]
                   ELSE new.content.parts[k] = old.content.parts[k]

\* C31: every message of the annotated list has the text of the message it
\* comes from; a message that is not marked is passed through unchanged, a
\* marked one is a copy with cache metadata on its last textual item; the
\* caller's list and its messages are as they were passed.
C31_AnnotationOnlyAddsMetadata ==
  cacheCall /= None =>
    LET msgs == cacheCall[1].passed
        out == cacheCall[1].cached_messages
    IN  /\ cacheCall[1].messages = msgs
        /\ Len(out) = Len(msgs)
        /\ \A i \in 1..Len(msgs) :
             /\ TextOf(out[i].content) = TextOf(msgs[i].content)
             /\ out[i] = msgs[i] \/ AnnotatedCopy(msgs[i], out[i])
             /\ ~Marked(out[i]) => out[i] = msgs[i]

C31_Witness ==
  /\ cacheCall /= None
  /\ Len(cacheCall[1].passed) = 40
  /\ cacheCall[1].messages = cacheCall[1].passed
  /\ cacheCall[1].passed[11].content = PartsContent(<<ImagePart, TextPart>>)
  /\ Marked(cacheCall[1].cached_messages[11])
  /\ ~Marked(cacheCall[1].cached_messages[12])
  /\ cacheCall[1].cached_messages[12] = cacheCall[1].passed[12]

\* C32: when a generate() call has ended, the total's request count has
\* grown by one if the request succeeded and its failed-request count by one
\* if it failed, so that the two count the succeeded and the failed calls;
\* the snapshot describes the request of that call only.
C32_RequestCounts ==
  Ended =>
    /\ total_stats.requests + total_stats.failed_requests = calls
    /\ IF backend[1].kind = "response"
         THEN /\ total_stats.requests = statsAtCall[1].total.requests + 1
              /\ total_stats.failed_requests = statsAtCall[1].total.failed_requests
              /\ last_request_stats.requests = 1
              /\ last_request_stats.failed_requests = 0
         ELSE /\ total_stats.requests = statsAtCall[1].total.requests
              /\ total_stats.failed_requests = statsAtCall[1].total.failed_requests + 1
              /\ last_request_stats.requests = 0
              /\ last_request_stats.failed_requests = 1

\* should_stop() on the fields as they were at the start of the latest call
ShouldStopBefore ==
  Before.stop_requested \/ Before.completed \/ Before.iteration >= Before.max_iterations

\* C33: should_stop(), once true, stays true across every operation other
\* than enter_waiting_state and resume_from_waiting; completed is cleared
\* only by resume_from_waiting, stop_requested only by these two, iteration
\* never decreases, and entering the waiting state drops a pending stop.
C33_ShouldStopStable ==
  /\ (ShouldStopBefore /\ lastOp \notin {"enter_waiting_state", "resume_from_waiting"})
       => should_stop_value
  /\ (Before.completed /\ ~completed) => lastOp = "resume_from_waiting"
  /\ (Before.stop_requested /\ ~stop_requested)
       => lastOp \in {"enter_waiting_state", "resume_from_waiting"}
  /\ iteration >= Before.iteration
  /\ lastOp = "enter_waiting_state" => ~stop_requested

C33_Witness ==
  /\ lastOp = "enter_waiting_state"
  /\ ShouldStopBefore
  /\ Before.stop_requested
  /\ ~should_stop_value

\* C34: llm_failed implies waiting_for_input.
C34_FailedOnlyWhileWaiting == llm_failed => waiting_for_input

C34_Witness ==
  /\ lastOp = "set_completed"
  /\ llm_failed
  /\ waiting_for_input
  /\ stop_requested

\* C35: under a loop that counts an iteration only when should_stop() is
\* false, iteration never exceeds max_iterations, also after
\* resume_from_waiting.
C35_IterationBounded == iteration <= max_iterations

C35_Witness ==
  /\ lastOp = "resume_from_waiting"
  /\ Before.iteration = max_iterations
  /\ iteration = max_iterations
  /\ iteration > 0
  /\ ~completed /\ ~stop_requested

\* C36: at the step in which generate() raises its typed failure, the
\* caller's list already holds the compressed form of the history that was
\* passed, the request having been submitted with it, and the step leaves the
\* list as it is: nothing is restored and nothing is appended.
C36_HistoryCompressedOnFailure ==
  [][(lpc = "awaiting" /\ generated'.kind = "raised") =>
       /\ submissions = calls
       /\ history = compress_history(callArg[1])
       /\ outbound = _prepare_cached_messages(config[1], <<SystemMessage>> \o history)
       /\ history' = history]_vars

C36_Witness ==
  /\ Ended
  /\ generated.kind = "raised"
  /\ generated.type = "LLMRequestFailedError"
  /\ Len(history) = KeepRecent
  /\ history[1] = SummaryMessage
  /\ Len(outbound) = 1 + KeepRecent

====
